---- MODULE Spec2Model ----
(***************************************************************************)
(* A model of plugins/azure-devops-backend/src/api/AzureDevOpsApi.ts: the  *)
(* AzureDevOpsApi adapter, its six public operations, the two private      *)
(* per-item fetches they fan out to, and the two exported mappers.         *)
(*                                                                         *)
(* One behaviour of Spec is one invocation of one public operation. Every  *)
(* await of the code is a step boundary: an action runs the code from one  *)
(* await to the next. A client call is appended to `calls` when it is      *)
(* issued and settled (ok / fail, with its payload) by the action that     *)
(* resumes the awaiting coroutine.                                         *)
(***************************************************************************)
EXTENDS Integers, Sequences, FiniteSets, TLC

(* ---------------------------------------------------------------------- *)
(* Optional values: None is JavaScript's undefined, Some(x) a value.       *)
(* ---------------------------------------------------------------------- *)
None == << >>

Some(x) == << x >>

\* Boolean(x) of an optional string: undefined and "" are falsy.
TruthyStr(x) == x # None /\ x[1] # ""

\* Boolean(x) of an optional number: undefined and 0 are falsy.
TruthyNum(x) == x # None /\ x[1] # 0

\* `${x}` in a template literal: undefined prints as the text "undefined".
StrOf(x) == IF x = None THEN "undefined" ELSE x[1]

\* xs.filter(Boolean) of optional strings, keeping the order of xs.
RECURSIVE FilterTruthy(_)
FilterTruthy(xs) ==
  IF xs = << >> THEN << >>
  ELSE IF TruthyStr(Head(xs)) THEN << Head(xs) >> \o FilterTruthy(Tail(xs))
       ELSE FilterTruthy(Tail(xs))

\* xs.join(sep) of a sequence of strings.
RECURSIVE JoinStr(_, _)
JoinStr(xs, sep) ==
  IF xs = << >> THEN ""
  ELSE IF Len(xs) = 1 THEN xs[1]
       ELSE xs[1] \o sep \o JoinStr(Tail(xs), sep)

(* ---------------------------------------------------------------------- *)
(* Bounds of the model.                                                    *)
(* ---------------------------------------------------------------------- *)
MaxBuilds == 2

MaxPRs == 2

MaxEvals == 1

MaxTeams == 2

MaxMembers == 1

\* All sequences over S of length at most n.
SeqUpTo(S, n) == UNION { [1..k -> S] : k \in 0..n }

(* ---------------------------------------------------------------------- *)
(* The arguments of the invocation and the wrapped client's server URL.    *)
(* ---------------------------------------------------------------------- *)
ProjectName == "proj"

RepoName == "repo-a"

ArgRepoId == "r0"

Options == [status |-> "active", top |-> 10]

ServerUrl == "https://dev.azure.com/org"

LoggerModes == {"present", "absent", "failing"}

(* ---------------------------------------------------------------------- *)
(* The exported mappers.                                                   *)
(* ---------------------------------------------------------------------- *)
\* Date.prototype.toISOString of a date given as a day of January 1970.
ToISOString(d) == "1970-01-0" \o ToString(d) \o "T00:00:00.000Z"

OptISO(d) == IF d = None THEN None ELSE Some(ToISOString(d[1]))

\* s.substr(0, n - 1)
Substr0OneShort(s, n) == IF Len(s) <= n - 1 THEN s ELSE SubSeq(s, 1, n - 1)

\* s.substr(0, n): the first n characters, or all of s when it is shorter.
Substr0(s, n) == IF Len(s) <= n THEN s ELSE SubSeq(s, 1, n)

\* sourceVersion?.substr(0, 8)
ShortVersion(v) == IF v = None THEN None ELSE Some(Substr0(v[1], 8))

\* `${build.sourceBranch} (${build.sourceVersion?.substr(0, 8)})`
BuildSource(build) ==
  StrOf(build.sourceBranch) \o " (" \o StrOf(ShortVersion(build.sourceVersion)) \o ")"

\* [build.definition?.name, build.buildNumber].filter(Boolean).join(' - ')
BuildTitle(build) ==
  LET parts == FilterTruthy(<< build.definitionName, build.buildNumber >>)
  IN  JoinStr([i \in 1..Len(parts) |-> parts[i][1]], " - ")

mappedRepoBuild(build) ==
  [ id         |-> build.id,
    title      |-> BuildTitle(build),
    link       |-> IF build.href = None THEN "" ELSE build.href[1],
    status     |-> IF build.status = None THEN "None" ELSE build.status[1],
    result     |-> IF build.result = None THEN "None" ELSE build.result[1],
    queueTime  |-> OptISO(build.queueTime),
    startTime  |-> OptISO(build.startTime),
    finishTime |-> OptISO(build.finishTime),
    source     |-> BuildSource(build),
    uniqueName |-> IF build.requestedBy = None THEN "N/A" ELSE build.requestedBy[1] ]

\* encodeURIComponent on the names used here: a space becomes %20.
RECURSIVE EncodeURIComponent(_)
EncodeURIComponent(s) ==
  IF s = "" THEN ""
  ELSE (IF Head(s) = " " THEN "%20" ELSE Head(s)) \o EncodeURIComponent(Tail(s))

LinkBaseUrl(projectName, repoName) ==
  ServerUrl \o "/" \o EncodeURIComponent(projectName) \o "/_git/"
            \o EncodeURIComponent(repoName) \o "/pullrequest"

mappedPullRequest(pullRequest, linkBaseUrl) ==
  [ pullRequestId |-> pullRequest.pullRequestId,
    repoName      |-> pullRequest.repoName,
    uniqueName    |-> IF pullRequest.createdBy = None THEN "N/A"
                      ELSE pullRequest.createdBy[1],
    link          |-> linkBaseUrl \o "/" \o
                      (IF pullRequest.pullRequestId = None THEN "undefined"
                       ELSE ToString(pullRequest.pullRequestId[1])) ]

(* ---------------------------------------------------------------------- *)
(* The helpers imported from ../utils.                                     *)
(* ---------------------------------------------------------------------- *)
\* The artifact id of a pull request: its project id and its id in one string.
getArtifactId(projectId, pullRequestId) ==
  "vstfs:///CodeReview/CodeReviewId/" \o StrOf(projectId) \o "%2F" \o
  (IF pullRequestId = None THEN "undefined" ELSE ToString(pullRequestId[1]))

PolicyTypes == {"Build", "Status", "MinimumReviewers", "Comments"}

\* A policy-evaluation record converts to a Policy, or to nothing (undefined).
convertPolicy(record) ==
  IF record.enabled /\ record.type \in PolicyTypes
  THEN Some([id |-> record.id, type |-> record.type, status |-> record.status])
  ELSE None

\* The dashboard pull request of a raw one: its fields, its link, its policies.
convertDashboardPullRequest(pullRequest, baseUrl, policies) ==
  [ pullRequestId |-> pullRequest.pullRequestId,
    projectId     |-> pullRequest.projectId,
    link          |-> baseUrl \o "/_git/pullrequest/" \o
                      (IF pullRequest.pullRequestId = None THEN "undefined"
                       ELSE ToString(pullRequest.pullRequestId[1])),
    policies      |-> policies ]

(* ---------------------------------------------------------------------- *)
(* The pure parts of the private fetches.                                  *)
(* ---------------------------------------------------------------------- *)
\* xs.filter(x => Boolean(x)) of optional objects: undefined is dropped.
RECURSIVE FilterDefined(_)
FilterDefined(xs) ==
  IF xs = << >> THEN << >>
  ELSE IF Head(xs) # None THEN << Head(xs) >> \o FilterDefined(Tail(xs))
       ELSE FilterDefined(Tail(xs))

\* The map without the filter: what does not convert stays, as a null policy.
ConvertPoliciesUnfiltered(records) ==
  [i \in 1..Len(records) |->
     IF convertPolicy(records[i]) = None
     THEN [id |-> 0, type |-> "undefined", status |-> "undefined"]
     ELSE convertPolicy(records[i])[1]]

\* policyEvaluationRecords.map(convertPolicy).filter(policy => Boolean(policy))
ConvertPolicies(records) ==
  LET converted == [i \in 1..Len(records) |-> convertPolicy(records[i])]
      kept      == FilterDefined(converted)
  IN  [i \in 1..Len(kept) |-> kept[i][1]]

\* teamMembers.map(teamMember => teamMember.identity?.id).filter(id => Boolean(id))
MemberIds(teamMembers) ==
  LET ids  == [i \in 1..Len(teamMembers) |-> teamMembers[i].identityId]
      kept == FilterTruthy(ids)
  IN  [i \in 1..Len(kept) |-> kept[i][1]]

\* The guard with || for &&.
HasPolicyIdsEither(pullRequest) ==
  TruthyStr(pullRequest.projectId) \/ TruthyNum(pullRequest.pullRequestId)

\* if (projectId && prId)
HasPolicyIds(pullRequest) ==
  TruthyStr(pullRequest.projectId) /\ TruthyNum(pullRequest.pullRequestId)

\* The guard with && for ||.
LacksTeamIdsBoth(team) == ~TruthyStr(team.projectId) /\ ~TruthyStr(team.id)

\* if (!team.projectId || !team.id) return undefined
LacksTeamIds(team) == ~TruthyStr(team.projectId) \/ ~TruthyStr(team.id)

(* ---------------------------------------------------------------------- *)
(* teams.sort(compare): Array.prototype.sort as the runtime (V8) does it   *)
(* for an array shorter than 64: the leading run is found (and reversed    *)
(* when strictly descending), the rest is inserted by binary insertion.    *)
(* ---------------------------------------------------------------------- *)
\* The collation order of the team names of the model.
Collation == << "", "alpha", "Bravo", "charlie" >>

CollationRank(s) == CHOOSE i \in 1..Len(Collation) : Collation[i] = s

\* a.localeCompare(b): negative, zero or positive.
LocaleCompare(a, b) ==
  IF CollationRank(a) < CollationRank(b) THEN -1
  ELSE IF CollationRank(a) > CollationRank(b) THEN 1 ELSE 0

\* (a, b) => a.name && b.name ? a.name.localeCompare(b.name) : 0
CompareTeams(a, b) ==
  IF TruthyStr(a.name) /\ TruthyStr(b.name)
  THEN LocaleCompare(a.name[1], b.name[1])
  ELSE 0

\* The run from the first element goes on at idx.
RunGoesOn(arr, idx, descending) ==
  IF descending THEN CompareTeams(arr[idx], arr[idx - 1]) < 0
  ELSE CompareTeams(arr[idx], arr[idx - 1]) >= 0

\* The length of the run that begins the array (of two elements or more).
RunLength(arr) ==
  LET descending == CompareTeams(arr[2], arr[1]) < 0
  IN  CHOOSE r \in 2..Len(arr) :
        /\ \A idx \in 3..r : RunGoesOn(arr, idx, descending)
        /\ (r = Len(arr) \/ ~RunGoesOn(arr, r + 1, descending))

\* The array with its leading run made ascending.
MakeRun(arr) ==
  LET r == RunLength(arr)
  IN  IF CompareTeams(arr[2], arr[1]) < 0
      THEN [i \in 1..Len(arr) |-> IF i <= r THEN arr[r + 1 - i] ELSE arr[i]]
      ELSE arr

\* Where the pivot goes among arr[left..right-1]: a binary search.
RECURSIVE InsertionPoint(_, _, _, _)
InsertionPoint(arr, pivot, left, right) ==
  IF left >= right THEN left
  ELSE LET mid == left + ((right - left) \div 2)
       IN  IF CompareTeams(pivot, arr[mid]) < 0
           THEN InsertionPoint(arr, pivot, left, mid)
           ELSE InsertionPoint(arr, pivot, mid + 1, right)

\* arr[1..start-1] is sorted: insert arr[start], then the elements after it.
RECURSIVE BinaryInsertionSort(_, _)
BinaryInsertionSort(arr, start) ==
  IF start > Len(arr) THEN arr
  ELSE LET pivot == arr[start]
           left  == InsertionPoint(arr, pivot, 1, start)
           moved == [p \in 1..Len(arr) |->
                       IF p = left THEN pivot
                       ELSE IF p > left /\ p <= start THEN arr[p - 1]
                       ELSE arr[p]]
       IN  BinaryInsertionSort(moved, start + 1)

SortTeams(teams) ==
  IF Len(teams) < 2 THEN teams
  ELSE BinaryInsertionSort(MakeRun(teams), RunLength(teams) + 1)

(* ---------------------------------------------------------------------- *)
(* What the upstream client may answer.                                    *)
(* ---------------------------------------------------------------------- *)
\* A call's answer: None is a failure (the promise rejects), Some(x) a payload.
Responses(S) == {None} \cup {Some(x) : x \in S}

Repositories == { [id |-> Some("r1"), name |-> RepoName],
                  [id |-> Some("r2"), name |-> RepoName] }

BuildSamples ==
  { [ id |-> 1, definitionName |-> Some("CI"), buildNumber |-> Some("20"),
      href |-> None, status |-> None, result |-> None,
      queueTime |-> None, startTime |-> None, finishTime |-> None,
      sourceBranch |-> Some("refs/heads/main"),
      sourceVersion |-> Some("0123456789abcdef"), requestedBy |-> None ],
    [ id |-> 2, definitionName |-> None, buildNumber |-> Some("21"),
      href |-> Some("https://dev.azure.com/org/proj/_build/2"),
      status |-> Some("completed"), result |-> Some("succeeded"),
      queueTime |-> Some(1), startTime |-> Some(2), finishTime |-> Some(3),
      sourceBranch |-> None, sourceVersion |-> Some("abc"),
      requestedBy |-> Some("dev@example.com") ] }

\* repository?.project?.id and pullRequestId: each absent, empty or zero, or set.
PullRequestIds ==
  { << None, Some(7) >>, << Some(""), Some(7) >>, << Some("p1"), None >>,
    << Some("p1"), Some(0) >>, << Some("p1"), Some(7) >>, << Some("p1"), Some(8) >> }

PullRequestSamples ==
  { [ pullRequestId |-> ids[2], projectId |-> ids[1], repoName |-> Some(RepoName),
      createdBy |-> None ] : ids \in PullRequestIds }

PolicyRecordSamples ==
  { [ id |-> 1, type |-> "Build", enabled |-> TRUE, status |-> "approved" ],
    [ id |-> 2, type |-> "Build", enabled |-> FALSE, status |-> "queued" ] }

\* One team with both ids, one without a project id, one without an id, one
\* with both ids empty and no name.
TeamSamples ==
  { [ id |-> Some("t1"), name |-> Some("charlie"), projectId |-> Some("p1") ],
    [ id |-> Some("t2"), name |-> Some("alpha"), projectId |-> None ],
    [ id |-> None, name |-> Some("Bravo"), projectId |-> Some("p1") ],
    [ id |-> Some(""), name |-> None, projectId |-> Some("") ] }

MemberSamples == { [ identityId |-> Some("u1") ], [ identityId |-> None ],
                   [ identityId |-> Some("") ] }

(* ---------------------------------------------------------------------- *)
(* The state of one invocation.                                            *)
(* ---------------------------------------------------------------------- *)
VARIABLES
  logger,     \* the logger handed to the constructor: present, absent, failing
  op,         \* the public operation invoked ("none" before the invocation)
  pc,         \* where the operation's coroutine stands (the await it is at)
  wait,       \* the index in calls of the call the coroutine awaits (0: none)
  calls,      \* the client calls issued so far, in the order of issue
  outcome,    \* of the operation's promise: pending, resolved, rejected
  result,     \* the value the promise resolved with
  repo,       \* gitRepository
  items,      \* buildList, gitPullRequests or webApiTeams
  task,       \* the per-item async callbacks handed to Promise.all
  completed,  \* the indexes of the callbacks that settled, in that order
  fn,         \* the pure function applied (the function specifications)
  fnIn,       \* its input
  fnOut       \* its output

vars == << logger, op, pc, wait, calls, outcome, result, repo, items, task,
           completed, fn, fnIn, fnOut >>

fnVars == << fn, fnIn, fnOut >>

Init ==
  /\ logger \in LoggerModes
  /\ op = "none"
  /\ pc = "idle"
  /\ wait = 0
  /\ calls = << >>
  /\ outcome = "pending"
  /\ result = None
  /\ repo = None
  /\ items = << >>
  /\ task = << >>
  /\ completed = << >>
  /\ fn = "none"
  /\ fnIn = None
  /\ fnOut = None

(* ---------------------------------------------------------------------- *)
(* The steps every operation is made of.                                   *)
(* ---------------------------------------------------------------------- *)
\* this.logger.debug(...), without the ?.: no logger, a TypeError.
DebugOutcomesUnguarded(l) ==
  IF l = "failing" THEN {"ok", "throw"}
  ELSE IF l = "absent" THEN {"throw"} ELSE {"ok"}

\* this.logger?.debug(...): nothing when there is no logger; a logger's debug
\* returns, or (a failing one) may throw.
DebugOutcomes(l) == IF l = "failing" THEN {"ok", "throw"} ELSE {"ok"}

\* A client call as issued by coroutine `by` (0: the operation, i: callback i).
Call(api, arg, by) ==
  [api |-> api, arg |-> arg, by |-> by, resp |-> "pending", ret |-> None]

\* calls with call idx settled.
SettledAt(idx, resp, ret) == [calls EXCEPT ![idx].resp = resp, ![idx].ret = ret]

\* An exception leaves the async function: its promise rejects.
Throw(cs) ==
  /\ calls' = cs
  /\ wait' = 0
  /\ pc' = "done"
  /\ outcome' = "rejected"
  /\ result' = None

\* await client.api(arg): the call is issued and the coroutine suspends.
Await(cs, api, arg, label) ==
  /\ calls' = Append(cs, Call(api, arg, 0))
  /\ wait' = Len(cs) + 1
  /\ pc' = label
  /\ UNCHANGED << outcome, result >>

\* return v
Return(cs, v) ==
  /\ calls' = cs
  /\ wait' = 0
  /\ pc' = "done"
  /\ outcome' = "resolved"
  /\ result' = Some(v)

(* ---------------------------------------------------------------------- *)
(* getGitRepository, getBuildList, getRepoBuilds, getPullRequests.         *)
(* ---------------------------------------------------------------------- *)
\* getGitRepository up to its first await: debug, then webApi.getGitApi().
EnterGetGitRepository(cs) ==
  \E d \in DebugOutcomes(logger) :
    IF d = "throw" THEN Throw(cs)
    ELSE Await(cs, "getGitApi", << >>, "gitApi")

\* getBuildList up to its first await: debug, then webApi.getBuildApi().
EnterGetBuildList(cs) ==
  \E d \in DebugOutcomes(logger) :
    IF d = "throw" THEN Throw(cs)
    ELSE Await(cs, "getBuildApi", << >>, "buildApi")

GetGitRepository ==
  /\ pc = "idle"
  /\ op' = "getGitRepository"
  /\ EnterGetGitRepository(calls)
  /\ UNCHANGED << logger, repo, items, task, completed, fnVars >>

GetBuildList ==
  /\ pc = "idle"
  /\ op' = "getBuildList"
  /\ EnterGetBuildList(calls)
  /\ UNCHANGED << logger, repo, items, task, completed, fnVars >>

GetRepoBuilds ==
  /\ pc = "idle"
  /\ op' = "getRepoBuilds"
  /\ \E d \in DebugOutcomes(logger) :
       IF d = "throw" THEN Throw(calls) ELSE EnterGetGitRepository(calls)
  /\ UNCHANGED << logger, repo, items, task, completed, fnVars >>

GetPullRequests ==
  /\ pc = "idle"
  /\ op' = "getPullRequests"
  /\ \E d \in DebugOutcomes(logger) :
       IF d = "throw" THEN Throw(calls) ELSE EnterGetGitRepository(calls)
  /\ UNCHANGED << logger, repo, items, task, completed, fnVars >>

\* getGitRepository: webApi.getGitApi() settled; return client.getRepository(...)
OnGitApi ==
  /\ pc = "gitApi"
  /\ \E ok \in BOOLEAN :
       IF ok
       THEN Await(SettledAt(wait, "ok", Some("GitApi")), "getRepository",
                  << RepoName, ProjectName >>, "repository")
       ELSE Throw(SettledAt(wait, "fail", None))
  /\ UNCHANGED << logger, op, repo, items, task, completed, fnVars >>

\* The repository's name handed on in place of its id.
RepoNameOf(r) == Some(r.name)

\* gitRepository.id as string: the id handed to getBuilds and getPullRequests.
RepoIdOf(r) == r.id

\* client.getRepository settled: getGitRepository returns to its caller.
OnRepository ==
  /\ pc = "repository"
  /\ \E resp \in Responses(Repositories) :
       IF resp = None
       THEN Throw(SettledAt(wait, "fail", None)) /\ repo' = repo
       ELSE /\ repo' = resp
            /\ CASE op = "getGitRepository" ->
                       Return(SettledAt(wait, "ok", resp), resp[1])
                 []  op = "getRepoBuilds" ->
                       EnterGetBuildList(SettledAt(wait, "ok", resp))
                 []  op = "getPullRequests" ->
                       Await(SettledAt(wait, "ok", resp), "getGitApi", << >>,
                             "prGitApi")
  /\ UNCHANGED << logger, op, items, task, completed, fnVars >>

\* getBuildList: webApi.getBuildApi() settled; return client.getBuilds(...)
OnBuildApi ==
  /\ pc = "buildApi"
  /\ \E ok \in BOOLEAN :
       IF ok
       THEN Await(SettledAt(wait, "ok", Some("BuildApi")), "getBuilds",
                  << ProjectName, Options.top,
                     IF op = "getBuildList" THEN Some(ArgRepoId)
                     ELSE RepoIdOf(repo[1]),
                     "TfsGit" >>, "builds")
       ELSE Throw(SettledAt(wait, "fail", None))
  /\ UNCHANGED << logger, op, repo, items, task, completed, fnVars >>

\* buildList.map(build => mappedRepoBuild(build))
MapBuilds(buildList) == [i \in 1..Len(buildList) |-> mappedRepoBuild(buildList[i])]

\* client.getBuilds settled: getBuildList returns the list, getRepoBuilds maps it.
OnBuilds ==
  /\ pc = "builds"
  /\ \E resp \in Responses(SeqUpTo(BuildSamples, MaxBuilds)) :
       IF resp = None
       THEN Throw(SettledAt(wait, "fail", None)) /\ items' = items
       ELSE /\ items' = resp[1]
            /\ IF op = "getBuildList"
               THEN Return(SettledAt(wait, "ok", resp), resp[1])
               ELSE Return(SettledAt(wait, "ok", resp), MapBuilds(resp[1]))
  /\ UNCHANGED << logger, op, repo, task, completed, fnVars >>

\* getPullRequests: its own webApi.getGitApi() settled; client.getPullRequests(...)
OnPrGitApi ==
  /\ pc = "prGitApi"
  /\ \E ok \in BOOLEAN :
       IF ok
       THEN Await(SettledAt(wait, "ok", Some("GitApi")), "getPullRequests",
                  << RepoIdOf(repo[1]), Options.status, ProjectName, Options.top >>,
                  "pullRequests")
       ELSE Throw(SettledAt(wait, "fail", None))
  /\ UNCHANGED << logger, op, repo, items, task, completed, fnVars >>

\* client.getPullRequests settled: each is mapped with the link base URL.
OnPullRequests ==
  /\ pc = "pullRequests"
  /\ \E resp \in Responses(SeqUpTo(PullRequestSamples, MaxPRs)) :
       IF resp = None
       THEN Throw(SettledAt(wait, "fail", None)) /\ items' = items
       ELSE /\ items' = resp[1]
            /\ Return(SettledAt(wait, "ok", resp),
                      [i \in 1..Len(resp[1]) |->
                         mappedPullRequest(resp[1][i],
                                           LinkBaseUrl(ProjectName, RepoName))])
  /\ UNCHANGED << logger, op, repo, task, completed, fnVars >>

(* ---------------------------------------------------------------------- *)
(* The fan-out of getDashboardPullRequests and getAllTeams: one async      *)
(* callback per item, all started in the order of the items when the list  *)
(* arrives (each runs up to its first await), joined by Promise.all.       *)
(* ---------------------------------------------------------------------- *)
\* The elements of a set of numbers, ascending.
RECURSIVE Ascending(_)
Ascending(S) ==
  IF S = {} THEN << >>
  ELSE LET m == CHOOSE x \in S : \A y \in S : x <= y
       IN  << m >> \o Ascending(S \ {m})

\* A callback: suspended at an await (api, fetch) or settled.
Suspended(t) == {i \in DOMAIN t : t[i].pc = "api"}

SettledTasks(t) == {i \in DOMAIN t : t[i].pc \in {"fulfilled", "rejected"}}

\* The callbacks as started, each suspended one awaiting the call it issued:
\* the calls follow cs in the order of the items.
WithCalls(started, cs) ==
  [i \in DOMAIN started |->
     IF started[i].pc = "api"
     THEN [started[i] EXCEPT
             !.wait = Len(cs) + Cardinality({j \in Suspended(started) : j <= i})]
     ELSE started[i]]

FirstCalls(started, cs, api) ==
  LET order == Ascending(Suspended(started))
  IN  cs \o [k \in 1..Len(order) |-> Call(api, << >>, order[k])]

\* Promise.all(promises): rejected as soon as one promise is rejected, resolved
\* once all are fulfilled, with their values in the order of the promises.
PromiseAll(t) ==
  IF \E i \in DOMAIN t : t[i].pc = "rejected"
  THEN [outcome |-> "rejected", values |-> None]
  ELSE IF \A i \in DOMAIN t : t[i].pc = "fulfilled"
       THEN [outcome |-> "resolved",
             values |-> Some([i \in DOMAIN t |-> t[i].value])]
       ELSE [outcome |-> "pending", values |-> None]

\* Promise.allSettled for Promise.all, the rejected callbacks left out.
PromiseAllSettled(t) ==
  IF \A i \in DOMAIN t : t[i].pc \in {"fulfilled", "rejected"}
  THEN LET kept == Ascending({i \in DOMAIN t : t[i].pc = "fulfilled"})
       IN  [outcome |-> "resolved",
            values |-> Some([k \in 1..Len(kept) |-> t[kept[k]].value])]
  ELSE [outcome |-> "pending", values |-> None]

JoinDashboardSettled(t, settledOrder) == PromiseAllSettled(t)

\* The results pushed to a shared list as the callbacks settle.
JoinDashboardInSettledOrder(t, settledOrder) ==
  LET all == PromiseAll(t)
  IN  IF all.outcome = "resolved"
      THEN [all EXCEPT !.values =
              Some([k \in 1..Len(settledOrder) |-> t[settledOrder[k]].value])]
      ELSE all

JoinTeamsSettled(t, settledOrder) ==
  LET all == PromiseAllSettled(t)
  IN  IF all.outcome = "resolved"
      THEN [all EXCEPT !.values = Some(SortTeams(all.values[1]))]
      ELSE all

\* return Promise.all(gitPullRequests.map(async gitPullRequest => ...)): the
\* order the callbacks settled in (settledOrder) plays no part.
JoinDashboard(t, settledOrder) == PromiseAll(t)

\* const teams = await Promise.all(webApiTeams.map(async team => ...));
\* return teams.sort(...)
JoinTeams(t, settledOrder) ==
  LET all == PromiseAll(t)
  IN  IF all.outcome = "resolved"
      THEN [all EXCEPT !.values = Some(SortTeams(all.values[1]))]
      ELSE all

\* The operation's promise follows the join, once: a settled promise stays.
Joined(j) ==
  /\ outcome' = IF outcome = "pending" THEN j.outcome ELSE outcome
  /\ result' = IF outcome = "pending" THEN j.values ELSE result
  /\ pc' = IF outcome = "pending" /\ j.outcome = "pending" THEN "join" ELSE "done"
  /\ wait' = 0

Fulfilled(v) == [pc |-> "fulfilled", wait |-> 0, value |-> v]

Rejected == [pc |-> "rejected", wait |-> 0, value |-> None]

AwaitingApi == [pc |-> "api", wait |-> 0, value |-> None]

(* ---------------------------------------------------------------------- *)
(* getDashboardPullRequests and getPullRequestPolicies.                    *)
(* ---------------------------------------------------------------------- *)
GetDashboardPullRequests ==
  /\ pc = "idle"
  /\ op' = "getDashboardPullRequests"
  /\ \E d \in DebugOutcomes(logger) :
       IF d = "throw" THEN Throw(calls)
       ELSE Await(calls, "getGitApi", << >>, "dashGitApi")
  /\ UNCHANGED << logger, repo, items, task, completed, fnVars >>

OnDashboardGitApi ==
  /\ pc = "dashGitApi"
  /\ \E ok \in BOOLEAN :
       IF ok
       THEN Await(SettledAt(wait, "ok", Some("GitApi")), "getPullRequestsByProject",
                  << ProjectName, Options.status, Options.top >>, "prsByProject")
       ELSE Throw(SettledAt(wait, "fail", None))
  /\ UNCHANGED << logger, op, repo, items, task, completed, fnVars >>

\* The callback of one pull request up to its first await: without both ids it
\* converts with policies undefined; with them it enters getPullRequestPolicies
\* (debug, then webApi.getPolicyApi()).
StartPolicyTask(gitPullRequest, d) ==
  IF ~HasPolicyIds(gitPullRequest)
  THEN Fulfilled(convertDashboardPullRequest(gitPullRequest, ServerUrl, None))
  ELSE IF d = "throw" THEN Rejected ELSE AwaitingApi

\* client.getPullRequestsByProject settled: the callbacks start, Promise.all joins.
OnPullRequestsByProject ==
  /\ pc = "prsByProject"
  /\ \E resp \in Responses(SeqUpTo(PullRequestSamples, MaxPRs)) :
       IF resp = None
       THEN /\ Throw(SettledAt(wait, "fail", None))
            /\ UNCHANGED << items, task, completed >>
       ELSE \E ds \in [1..Len(resp[1]) -> DebugOutcomes(logger)] :
              LET cs      == SettledAt(wait, "ok", resp)
                  started == [i \in 1..Len(resp[1]) |->
                                StartPolicyTask(resp[1][i], ds[i])]
              IN  /\ items' = resp[1]
                  /\ task' = WithCalls(started, cs)
                  /\ calls' = FirstCalls(started, cs, "getPolicyApi")
                  /\ completed' = Ascending(SettledTasks(started))
                  /\ Joined(JoinDashboard(task', completed'))
  /\ UNCHANGED << logger, op, repo, fnVars >>

\* getPullRequestPolicies of callback i: webApi.getPolicyApi() settled.
OnPolicyApi(i) ==
  /\ task[i].pc = "api"
  /\ calls[task[i].wait].api = "getPolicyApi"
  /\ \E ok \in BOOLEAN :
       IF ok
       THEN /\ calls' = Append(SettledAt(task[i].wait, "ok", Some("PolicyApi")),
                               Call("getPolicyEvaluations",
                                    << ProjectName,
                                       getArtifactId(items[i].projectId,
                                                     items[i].pullRequestId) >>,
                                    i))
            /\ task' = [task EXCEPT ![i].pc = "fetch", ![i].wait = Len(calls) + 1]
            /\ UNCHANGED << completed, outcome, result, pc, wait >>
       ELSE /\ calls' = SettledAt(task[i].wait, "fail", None)
            /\ task' = [task EXCEPT ![i] = Rejected]
            /\ completed' = Append(completed, i)
            /\ Joined(JoinDashboard(task', completed'))
  /\ UNCHANGED << logger, op, repo, items, fnVars >>

\* client.getPolicyEvaluations of callback i settled: the records are converted
\* and the pull request is converted with them.
OnPolicyEvaluations(i) ==
  /\ task[i].pc = "fetch"
  /\ calls[task[i].wait].api = "getPolicyEvaluations"
  /\ \E resp \in Responses(SeqUpTo(PolicyRecordSamples, MaxEvals)) :
       /\ IF resp = None
          THEN /\ calls' = SettledAt(task[i].wait, "fail", None)
               /\ task' = [task EXCEPT ![i] = Rejected]
          ELSE /\ calls' = SettledAt(task[i].wait, "ok", resp)
               /\ task' = [task EXCEPT ![i] =
                             Fulfilled(convertDashboardPullRequest(
                                         items[i], ServerUrl,
                                         Some(ConvertPolicies(resp[1]))))]
       /\ completed' = Append(completed, i)
       /\ Joined(JoinDashboard(task', completed'))
  /\ UNCHANGED << logger, op, repo, items, fnVars >>

(* ---------------------------------------------------------------------- *)
(* getAllTeams and getTeamMemberIds.                                       *)
(* ---------------------------------------------------------------------- *)
GetAllTeams ==
  /\ pc = "idle"
  /\ op' = "getAllTeams"
  /\ \E d \in DebugOutcomes(logger) :
       IF d = "throw" THEN Throw(calls)
       ELSE Await(calls, "getCoreApi", << >>, "coreApi")
  /\ UNCHANGED << logger, repo, items, task, completed, fnVars >>

OnCoreApi ==
  /\ pc = "coreApi"
  /\ \E ok \in BOOLEAN :
       IF ok
       THEN Await(SettledAt(wait, "ok", Some("CoreApi")), "getAllTeams", << >>,
                  "allTeams")
       ELSE Throw(SettledAt(wait, "fail", None))
  /\ UNCHANGED << logger, op, repo, items, task, completed, fnVars >>

\* ({ id: team.id, name: team.name, memberIds: ... })
TeamOf(team, memberIds) == [id |-> team.id, name |-> team.name, memberIds |-> memberIds]

\* The callback of one team up to its first await: getTeamMemberIds logs, returns
\* undefined for a team lacking an id, and otherwise awaits webApi.getCoreApi().
StartTeamTask(team, d) ==
  IF d = "throw" THEN Rejected
  ELSE IF LacksTeamIds(team) THEN Fulfilled(TeamOf(team, None))
       ELSE AwaitingApi

\* client.getAllTeams settled: the callbacks start, Promise.all joins, then sort.
OnAllTeams ==
  /\ pc = "allTeams"
  /\ \E resp \in Responses(SeqUpTo(TeamSamples, MaxTeams)) :
       IF resp = None
       THEN /\ Throw(SettledAt(wait, "fail", None))
            /\ UNCHANGED << items, task, completed >>
       ELSE \E ds \in [1..Len(resp[1]) -> DebugOutcomes(logger)] :
              LET cs      == SettledAt(wait, "ok", resp)
                  started == [i \in 1..Len(resp[1]) |->
                                StartTeamTask(resp[1][i], ds[i])]
              IN  /\ items' = resp[1]
                  /\ task' = WithCalls(started, cs)
                  /\ calls' = FirstCalls(started, cs, "getCoreApi")
                  /\ completed' = Ascending(SettledTasks(started))
                  /\ Joined(JoinTeams(task', completed'))
  /\ UNCHANGED << logger, op, repo, fnVars >>

\* getTeamMemberIds of callback i: webApi.getCoreApi() settled.
OnTeamCoreApi(i) ==
  /\ task[i].pc = "api"
  /\ calls[task[i].wait].api = "getCoreApi"
  /\ \E ok \in BOOLEAN :
       IF ok
       THEN /\ calls' = Append(SettledAt(task[i].wait, "ok", Some("CoreApi")),
                               Call("getTeamMembersWithExtendedProperties",
                                    << items[i].projectId, items[i].id >>, i))
            /\ task' = [task EXCEPT ![i].pc = "fetch", ![i].wait = Len(calls) + 1]
            /\ UNCHANGED << completed, outcome, result, pc, wait >>
       ELSE /\ calls' = SettledAt(task[i].wait, "fail", None)
            /\ task' = [task EXCEPT ![i] = Rejected]
            /\ completed' = Append(completed, i)
            /\ Joined(JoinTeams(task', completed'))
  /\ UNCHANGED << logger, op, repo, items, fnVars >>

\* client.getTeamMembersWithExtendedProperties of callback i settled.
OnTeamMembers(i) ==
  /\ task[i].pc = "fetch"
  /\ calls[task[i].wait].api = "getTeamMembersWithExtendedProperties"
  /\ \E resp \in Responses(SeqUpTo(MemberSamples, MaxMembers)) :
       /\ IF resp = None
          THEN /\ calls' = SettledAt(task[i].wait, "fail", None)
               /\ task' = [task EXCEPT ![i] = Rejected]
          ELSE /\ calls' = SettledAt(task[i].wait, "ok", resp)
               /\ task' = [task EXCEPT ![i] =
                             Fulfilled(TeamOf(items[i], Some(MemberIds(resp[1]))))]
       /\ completed' = Append(completed, i)
       /\ Joined(JoinTeams(task', completed'))
  /\ UNCHANGED << logger, op, repo, items, fnVars >>

Next ==
  \/ GetGitRepository
  \/ GetBuildList
  \/ GetRepoBuilds
  \/ GetPullRequests
  \/ OnGitApi
  \/ OnRepository
  \/ OnBuildApi
  \/ OnBuilds
  \/ OnPrGitApi
  \/ OnPullRequests
  \/ GetDashboardPullRequests
  \/ OnDashboardGitApi
  \/ OnPullRequestsByProject
  \/ \E i \in DOMAIN task : OnPolicyApi(i)
  \/ \E i \in DOMAIN task : OnPolicyEvaluations(i)
  \/ GetAllTeams
  \/ OnCoreApi
  \/ OnAllTeams
  \/ \E i \in DOMAIN task : OnTeamCoreApi(i)
  \/ \E i \in DOMAIN task : OnTeamMembers(i)

Spec == Init /\ [][Next]_vars

(* ---------------------------------------------------------------------- *)
(* The pure functions on their own: an input is drawn, the function is     *)
(* applied to it.                                                          *)
(* ---------------------------------------------------------------------- *)
MaxVersionLen == 10

MaxRecords == 3

MaxSortLen == 3

\* The commit ids of the builds: the prefixes of one id.
Versions == {SubSeq("0123456789abcdef", 1, n) : n \in 0..MaxVersionLen}

BuildInputs ==
  { [ id |-> 1, definitionName |-> def, buildNumber |-> num,
      href |-> None, status |-> None, result |-> None,
      queueTime |-> Some(1), startTime |-> None, finishTime |-> None,
      sourceBranch |-> branch, sourceVersion |-> version, requestedBy |-> None ] :
      def \in {None, Some("CI")}, num \in {None, Some("20")},
      branch \in {None, Some(""), Some("refs/heads/main")},
      version \in {None} \cup {Some(v) : v \in Versions} }

RecordInputs ==
  { [ id |-> 1, type |-> "Build", enabled |-> TRUE, status |-> "approved" ],
    [ id |-> 2, type |-> "MinimumReviewers", enabled |-> TRUE, status |-> "running" ],
    [ id |-> 3, type |-> "Build", enabled |-> FALSE, status |-> "queued" ],
    [ id |-> 4, type |-> "RequiredReviewers", enabled |-> TRUE, status |-> "approved" ] }

TeamInputs ==
  { [ id |-> Some("t"), name |-> n, memberIds |-> None ] :
      n \in {None} \cup {Some(Collation[k]) : k \in 1..Len(Collation)} }

InitFn ==
  /\ logger = "present"
  /\ op = "none"
  /\ pc = "idle"
  /\ wait = 0
  /\ calls = << >>
  /\ outcome = "pending"
  /\ result = None
  /\ repo = None
  /\ items = << >>
  /\ task = << >>
  /\ completed = << >>
  /\ fnOut = None
  /\ \/ fn = "mappedRepoBuild" /\ fnIn \in BuildInputs
     \/ fn = "ConvertPolicies" /\ fnIn \in SeqUpTo(RecordInputs, MaxRecords)
     \/ fn = "SortTeams" /\ fnIn \in SeqUpTo(TeamInputs, MaxSortLen)

ApplyMappedRepoBuild ==
  /\ fn = "mappedRepoBuild"
  /\ fnOut = None
  /\ fnOut' = Some(mappedRepoBuild(fnIn))
  /\ UNCHANGED << logger, op, pc, wait, calls, outcome, result, repo, items, task,
                  completed, fn, fnIn >>

ApplyConvertPolicies ==
  /\ fn = "ConvertPolicies"
  /\ fnOut = None
  /\ fnOut' = Some(ConvertPolicies(fnIn))
  /\ UNCHANGED << logger, op, pc, wait, calls, outcome, result, repo, items, task,
                  completed, fn, fnIn >>

ApplySortTeams ==
  /\ fn = "SortTeams"
  /\ fnOut = None
  /\ fnOut' = Some(SortTeams(fnIn))
  /\ UNCHANGED << logger, op, pc, wait, calls, outcome, result, repo, items, task,
                  completed, fn, fnIn >>

NextFn ==
  \/ ApplyMappedRepoBuild
  \/ ApplyConvertPolicies
  \/ ApplySortTeams

SpecFn == InitFn /\ [][NextFn]_vars

(* ---------------------------------------------------------------------- *)
(* Properties.                                                             *)
(* ---------------------------------------------------------------------- *)
\* The calls issued by coroutine `by`.
CallsBy(by) == {k \in 1..Len(calls) : calls[k].by = by}

\* A pull request without a usable project id or pull request id.
LacksPolicyId(pullRequest) ==
  \/ pullRequest.projectId \in {None, Some("")}
  \/ pullRequest.pullRequestId \in {None, Some(0)}

\* The policy evaluations callback i received.
EvaluationsOf(i) ==
  LET k == CHOOSE c \in CallsBy(i) : calls[c].api = "getPolicyEvaluations"
  IN  calls[k].ret[1]

\* C1: getDashboardPullRequests is all-or-nothing over its per-PR callbacks: it
\* resolves only when every callback is fulfilled, with one entry per pull
\* request; once a callback is rejected the operation is rejected and carries
\* no list, whatever the other callbacks did.
DashboardAllOrNothing ==
  op = "getDashboardPullRequests" =>
    /\ outcome = "resolved" =>
         /\ \A i \in DOMAIN task : task[i].pc = "fulfilled"
         /\ DOMAIN task = 1..Len(items)
         /\ Len(result[1]) = Len(items)
    /\ (\E i \in DOMAIN task : task[i].pc = "rejected") =>
         outcome = "rejected" /\ result = None
    /\ (\E k \in 1..Len(calls) : calls[k].resp = "fail") => outcome = "rejected"

\* C1 witness: one callback fulfilled with fetched policies, another rejected by
\* a failed policy fetch, and the operation rejected.
DashboardPartialDiscarded ==
  /\ op = "getDashboardPullRequests"
  /\ outcome = "rejected"
  /\ result = None
  /\ \E i, j \in DOMAIN task :
       /\ task[i].pc = "fulfilled"
       /\ task[i].value.policies # None
       /\ task[j].pc = "rejected"
       /\ \E k \in CallsBy(j) :
            calls[k].api = "getPolicyEvaluations" /\ calls[k].resp = "fail"

\* C2: getAllTeams is rejected when the team list fetch fails and as soon as one
\* team's member-id fetch fails; it resolves only when every team's callback is
\* fulfilled, with one team per upstream team.
TeamsAllOrNothing ==
  op = "getAllTeams" =>
    /\ outcome = "resolved" =>
         /\ \A i \in DOMAIN task : task[i].pc = "fulfilled"
         /\ DOMAIN task = 1..Len(items)
         /\ Len(result[1]) = Len(items)
    /\ (\E i \in DOMAIN task : task[i].pc = "rejected") =>
         outcome = "rejected" /\ result = None
    /\ (\E k \in 1..Len(calls) : calls[k].resp = "fail") =>
         outcome = "rejected" /\ result = None

\* C2 witness: the second team's member fetch failed after the first team's
\* members had arrived, and the operation is rejected.
TeamsPartialDiscarded ==
  /\ op = "getAllTeams"
  /\ outcome = "rejected"
  /\ result = None
  /\ \E i, j \in DOMAIN task :
       /\ i < j
       /\ task[i].pc = "fulfilled"
       /\ task[i].value.memberIds # None
       /\ task[j].pc = "rejected"
       /\ \E k \in CallsBy(j) :
            /\ calls[k].api = "getTeamMembersWithExtendedProperties"
            /\ calls[k].resp = "fail"

\* C3: a pull request lacking a usable project id or pull request id (absent,
\* empty or zero) gets no client call and undefined policies; one with both has
\* its policy evaluations fetched under its own artifact id and its policies
\* present, possibly empty.
PoliciesOnlyWithBothIds ==
  op = "getDashboardPullRequests" =>
    \A i \in DOMAIN task :
      IF LacksPolicyId(items[i])
      THEN /\ CallsBy(i) = {}
           /\ task[i].pc = "fulfilled"
           /\ task[i].value.policies = None
           /\ outcome = "resolved" => result[1][i].policies = None
      ELSE /\ task[i].pc \in {"api", "fetch"} =>
                \E k \in CallsBy(i) : calls[k].api = "getPolicyApi"
           /\ task[i].pc = "fulfilled" =>
                /\ task[i].value.policies # None
                /\ \E k \in CallsBy(i) :
                     /\ calls[k].api = "getPolicyEvaluations"
                     /\ calls[k].resp = "ok"
                     /\ calls[k].arg =
                          << ProjectName,
                             getArtifactId(items[i].projectId,
                                           items[i].pullRequestId) >>
           /\ outcome = "resolved" => result[1][i].policies # None

\* C3 witness: a resolved list holding a pull request without policies (it
\* lacked an id) and one whose policies are present and empty.
PoliciesUndefinedAndEmpty ==
  /\ op = "getDashboardPullRequests"
  /\ outcome = "resolved"
  /\ \E i, j \in 1..Len(result[1]) :
       /\ LacksPolicyId(items[i])
       /\ result[1][i].policies = None
       /\ ~LacksPolicyId(items[j])
       /\ result[1][j].policies = Some(<< >>)

\* C10: a resolved getDashboardPullRequests holds one entry per upstream pull
\* request, in the upstream order, each with the policies converted from the
\* evaluations fetched for that very pull request.
DashboardKeepsOrderAndOwnPolicies ==
  (op = "getDashboardPullRequests" /\ outcome = "resolved") =>
    /\ Len(result[1]) = Len(items)
    /\ \A i \in 1..Len(items) :
         /\ result[1][i].pullRequestId = items[i].pullRequestId
         /\ result[1][i].projectId = items[i].projectId
         /\ IF CallsBy(i) = {} THEN result[1][i].policies = None
            ELSE result[1][i].policies = Some(ConvertPolicies(EvaluationsOf(i)))

\* C10 witness: the second pull request's policies arrived before the first's,
\* the two differ, and the operation resolved.
DashboardSettledOutOfOrder ==
  /\ op = "getDashboardPullRequests"
  /\ outcome = "resolved"
  /\ completed = << 2, 1 >>
  /\ CallsBy(1) # {} /\ CallsBy(2) # {}
  /\ items[1].pullRequestId # items[2].pullRequestId
  /\ result[1][1].policies # result[1][2].policies

\* A team without a usable project id, or without a usable id.
LacksProjectId(team) == team.projectId \in {None, Some("")}

LacksTeamId(team) == team.id \in {None, Some("")}

\* The members callback i received.
MembersOf(i) ==
  LET k == CHOOSE c \in CallsBy(i) :
             calls[c].api = "getTeamMembersWithExtendedProperties"
  IN  calls[k].ret[1]

\* The identity ids among members that are neither absent nor empty.
UsableIds(members) ==
  {n \in 1..Len(members) : members[n].identityId \notin {None, Some("")}}

\* What holds of every team's callback when the member ids are skipped for the
\* teams at the indexes `skipped` and fetched for the others: a skipped team
\* issues no call and has undefined member ids; another one issues its fetch
\* with its project id and id, and its member ids are the usable identity ids of
\* the members fetched, in their order.
MemberIdsFetchedUnless(skipped) ==
  op = "getAllTeams" =>
    \A i \in DOMAIN task :
      IF i \in skipped
      THEN /\ CallsBy(i) = {}
           /\ task[i].pc = "fulfilled" => task[i].value.memberIds = None
      ELSE /\ task[i].pc \in {"api", "fetch"} =>
                \E k \in CallsBy(i) : calls[k].api = "getCoreApi"
           /\ task[i].pc = "fulfilled" =>
                /\ \E k \in CallsBy(i) :
                     /\ calls[k].api = "getTeamMembersWithExtendedProperties"
                     /\ calls[k].arg = << items[i].projectId, items[i].id >>
                /\ task[i].value.memberIds # None
                /\ LET ids  == task[i].value.memberIds[1]
                       kept == Ascending(UsableIds(MembersOf(i)))
                   IN  /\ Len(ids) = Len(kept)
                       /\ \A n \in 1..Len(ids) :
                            ids[n] = MembersOf(i)[kept[n]].identityId[1]

\* C5, as amended: getTeamMemberIds returns undefined without a client call when
\* the team lacks a project id or lacks a team id (absent or empty, either one);
\* otherwise it fetches the extended membership and returns the members'
\* identity ids, those absent or empty dropped.
MemberIdsSkippedWhenEitherIdLacks ==
  MemberIdsFetchedUnless(
    {i \in DOMAIN task : LacksProjectId(items[i]) \/ LacksTeamId(items[i])})

\* C5, as stated: undefined without a call only when the team lacks both ids, a
\* fetch in every other case.
MemberIdsSkippedOnlyWhenBothIdsLack ==
  MemberIdsFetchedUnless(
    {i \in DOMAIN task : LacksProjectId(items[i]) /\ LacksTeamId(items[i])})

\* C5 witness: a resolved team list with a team that has a project id and no id,
\* left without member ids and without a call, and a team whose fetched members
\* include one without an identity id, which was dropped.
MemberIdsSkippedAndFiltered ==
  /\ op = "getAllTeams"
  /\ outcome = "resolved"
  /\ \E i, j \in DOMAIN task :
       /\ ~LacksProjectId(items[i]) /\ LacksTeamId(items[i])
       /\ CallsBy(i) = {}
       /\ task[i].value.memberIds = None
       /\ CallsBy(j) # {}
       /\ Len(MembersOf(j)) > Len(task[j].value.memberIds[1])

\* The client calls an operation issues itself, in order, when none fails.
CallsOfOperation ==
  CASE op = "getGitRepository" -> << "getGitApi", "getRepository" >>
    [] op = "getBuildList" -> << "getBuildApi", "getBuilds" >>
    [] op = "getRepoBuilds" ->
         << "getGitApi", "getRepository", "getBuildApi", "getBuilds" >>
    [] op = "getPullRequests" ->
         << "getGitApi", "getRepository", "getGitApi", "getPullRequests" >>
    [] op = "getDashboardPullRequests" ->
         << "getGitApi", "getPullRequestsByProject" >>
    [] op = "getAllTeams" -> << "getCoreApi", "getAllTeams" >>
    [] OTHER -> << >>

\* The client calls a per-item callback issues, in order, when none fails.
CallsOfCallback ==
  IF op = "getDashboardPullRequests"
  THEN << "getPolicyApi", "getPolicyEvaluations" >>
  ELSE << "getCoreApi", "getTeamMembersWithExtendedProperties" >>

\* The calls of coroutine `by` are the first calls of `expected`, each issued
\* only after the one before it succeeded.
IssuesInOrder(by, expected) ==
  LET mine == Ascending(CallsBy(by))
  IN  /\ Len(mine) <= Len(expected)
      /\ \A n \in 1..Len(mine) :
           /\ calls[mine[n]].api = expected[n]
           /\ n < Len(mine) => calls[mine[n]].resp = "ok"

\* What holds when logging plays no part in the control flow: the calls issued
\* and the outcome are decided by the client's answers alone. Every coroutine
\* issues its calls in the order of its code, each after the one before it
\* succeeded; the operation and each callback are rejected only by a client
\* call of their own that failed; an operation resolves only when all its
\* calls were issued and succeeded.
OutcomeFollowsClientCalls ==
  /\ pc # "idle" => calls # << >>
  /\ IssuesInOrder(0, CallsOfOperation)
  /\ \A i \in DOMAIN task : IssuesInOrder(i, CallsOfCallback)
  /\ outcome = "rejected" => \E k \in 1..Len(calls) : calls[k].resp = "fail"
  /\ outcome = "resolved" =>
       /\ \A k \in 1..Len(calls) : calls[k].resp = "ok"
       /\ Cardinality(CallsBy(0)) = Len(CallsOfOperation)
       /\ \A i \in DOMAIN task : Cardinality(CallsBy(i)) \in {0, Len(CallsOfCallback)}
  /\ \A i \in DOMAIN task :
       task[i].pc = "rejected" => \E k \in CallsBy(i) : calls[k].resp = "fail"

RepoBuildsComposeLookupThenBuilds ==
  op = "getRepoBuilds" =>
    /\ \A k \in 1..Len(calls) :
         calls[k].api \in {"getBuildApi", "getBuilds"} =>
           \E j \in 1..(k - 1) :
             /\ calls[j].api = "getRepository"
             /\ calls[j].resp = "ok"
             /\ calls[k].api = "getBuilds" =>
                  calls[k].arg = << ProjectName, Options.top, calls[j].ret[1].id,
                                    "TfsGit" >>
    /\ (\E k \in 1..Len(calls) : calls[k].resp = "fail") =>
         outcome = "rejected" /\ result = None
    /\ outcome = "resolved" =>
         \E k \in 1..Len(calls) :
           /\ calls[k].api = "getBuilds"
           /\ calls[k].resp = "ok"
           /\ Len(result[1]) = Len(calls[k].ret[1])
           /\ \A n \in 1..Len(result[1]) :
                result[1][n] = mappedRepoBuild(calls[k].ret[1][n])

\* C8 witness: getRepoBuilds resolved with two different builds.
RepoBuildsResolvedWithTwo ==
  /\ op = "getRepoBuilds"
  /\ outcome = "resolved"
  /\ Len(result[1]) = 2
  /\ result[1][1].id # result[1][2].id

\* The indexes of the records that convert to a policy, ascending.
Convertible(records) ==
  Ascending({i \in 1..Len(records) : convertPolicy(records[i]) # None})

\* C7: the policies returned are exactly the conversions of the records that
\* convert, in the order of those records: none stands for a record that does
\* not convert, their number is the number of records that convert, and no
\* records give no policies.
PoliciesAreTheConvertedRecords ==
  (fn = "ConvertPolicies" /\ fnOut # None) =>
    LET policies == fnOut[1]
        kept     == Convertible(fnIn)
    IN  /\ Len(policies) = Len(kept)
        /\ \A k \in 1..Len(policies) :
             /\ policies[k].type \in PolicyTypes
             /\ policies[k] = convertPolicy(fnIn[kept[k]])[1]
        /\ fnIn = << >> => policies = << >>

\* C7 witness: of three records the middle one does not convert, and the two
\* policies returned are those of the first and the third, which differ.
PoliciesWithOneDropped ==
  /\ fn = "ConvertPolicies"
  /\ fnOut # None
  /\ Len(fnIn) = 3
  /\ Convertible(fnIn) = << 1, 3 >>
  /\ Len(fnOut[1]) = 2
  /\ fnOut[1][1] # fnOut[1][2]

\* The text between the "(" and the ")" that end a source field.
SourcePrefix(source, branch) == SubSeq(source, Len(branch) + 3, Len(source) - 1)

NamedTeamsAscending ==
  (fn = "SortTeams" /\ fnOut # None) =>
    \A i, j \in 1..Len(fnOut[1]) :
      (i < j /\ TruthyStr(fnOut[1][i].name) /\ TruthyStr(fnOut[1][j].name)) =>
        LocaleCompare(fnOut[1][i].name[1], fnOut[1][j].name[1]) <= 0

====
